---- MODULE Spec2Model ----
(***************************************************************************)
(* SmartPlate AI: the App component (src/App.tsx) and the recognition      *)
(* client (src/services/geminiService.ts) as a state machine.              *)
(*                                                                         *)
(* State: the five useState cells of App, the local-storage entry          *)
(* 'plate_recognition_history', the FileReaders and recognition calls in   *)
(* flight and the wall clock read by Date.now().  One action per handler;  *)
(* an action that calls setHistory includes the re-render and the          *)
(* save-history effect that React runs after it.                           *)
(*                                                                         *)
(* Not modelled: localStorage.setItem failing (quota), a second tab, and   *)
(* the base64 split of the data URL (the provider's reply is an            *)
(* environment choice whatever bytes are sent).                            *)
(***************************************************************************)
EXTENDS Integers, Sequences, FiniteSets, TLC

VARIABLES image, isProcessing, result, history, error,
          storage, mounted, crashed, pending, readers, now, scans, lastOp

vars == <<image, isProcessing, result, history, error,
          storage, mounted, crashed, pending, readers, now, scans, lastOp>>

(***************************************************************************)
(* Bounds                                                                  *)
(***************************************************************************)
MaxScans == 2
MaxClock == 1
MaxReaders == 1
MaxOver == 1

(***************************************************************************)
(* Program constants                                                       *)
(***************************************************************************)
HistoryCap == 10

ErrMsg == "Failed to recognize plate. Please try a clearer image."

(***************************************************************************)
(* JavaScript values                                                       *)
(***************************************************************************)
Undefined == "<undefined>"
NoImage == "<null>"
NoError == "<null>"
NoResult == [none |-> TRUE]

Images == {"data:image/jpeg;base64,AAAA", "data:image/png;base64,BBBB"}
NoFile == "<no file>"

NullVal == [t |-> "null"]
ObjVal == [t |-> "obj", fields |-> [foo |-> "bar"]]
Arr(s) == [t |-> "arr", items |-> s]
IsArr(v) == v.t = "arr"
Items(v) == IF IsArr(v) THEN v.items ELSE <<>>

Get(o, k) == IF k \in DOMAIN o THEN o[k] ELSE Undefined

Take(s, n) == SubSeq(s, 1, IF Len(s) < n THEN Len(s) ELSE n)

(***************************************************************************)
(* Texts: what local storage and the provider's reply hold.  A text is     *)
(* absent, the empty string, unparsable, or the JSON text of a value.      *)
(***************************************************************************)
Absent == [kind |-> "absent", val |-> NullVal]
EmptyText == [kind |-> "empty", val |-> NullVal]
Garbage == [kind |-> "garbage", val |-> NullVal]
JsonText(v) == [kind |-> "json", val |-> v]

Truthy(text) == text.kind \notin {"absent", "empty"}

\* JSON.parse: throws on unparsable text, else yields the value.
JSONparse(text) ==
  IF text.kind = "json" THEN [ok |-> TRUE, val |-> text.val]
  ELSE [ok |-> FALSE, val |-> NullVal]

StringKeys == {"plateNumber", "region", "confidence", "make", "model", "color", "type"}

\* JSON.stringify of an object: a property whose value is undefined is omitted.
StripObject(o) ==
  LET kept == {k \in DOMAIN o : k \in StringKeys => o[k] # Undefined}
  IN  [k \in kept |-> o[k]]

StripItem(r) ==
  LET top == StripObject(r)
  IN  [k \in DOMAIN top |-> IF k = "vehicle" THEN StripObject(top[k]) ELSE top[k]]

JSONstringify(v) ==
  IF IsArr(v)
    THEN JsonText(Arr([i \in 1..Len(v.items) |-> StripItem(v.items[i])]))
    ELSE JsonText(v)

(***************************************************************************)
(* Recognition data and scan records                                       *)
(***************************************************************************)
FullData == [plate_number |-> "ABC123", region |-> "CA", vehicle_make |-> "Toyota",
             vehicle_model |-> "Camry", vehicle_color |-> "Blue",
             vehicle_type |-> "Sedan", confidence_score |-> "High"]
RequiredFields == {"plate_number", "region", "vehicle_make", "vehicle_model",
                   "vehicle_color", "vehicle_type", "confidence_score"}
NoConfidence == [k \in RequiredFields \ {"confidence_score"} |-> FullData[k]]

DataVal(d) == [t |-> "obj", fields |-> d]

\* What the provider can do with one call.
Replies ==
  {[rejects |-> TRUE, text |-> EmptyText]} \cup
  {[rejects |-> FALSE, text |-> x] :
     x \in {EmptyText, Garbage, JsonText(NullVal), JsonText(DataVal(FullData)),
            JsonText(DataVal(NoConfidence))}}

\* Which of the provider's behaviours a reply is (recorded in lastOp).
ReplyKind(reply) ==
  IF reply.rejects THEN "reject"
  ELSE IF reply.text.kind # "json" THEN reply.text.kind
  ELSE IF reply.text.val.t = "null" THEN "null"
  ELSE IF RequiredFields \subseteq DOMAIN reply.text.val.fields THEN "full"
  ELSE "partial"

\* recognizePlate: the awaited call, the empty-text check, JSON.parse.
recognizePlate(reply) ==
  IF reply.rejects THEN [ok |-> FALSE, val |-> NullVal]
  ELSE IF ~Truthy(reply.text) THEN [ok |-> FALSE, val |-> NullVal]
  ELSE JSONparse(reply.text)

ScanResult(id, ts, img, d) ==
  [id |-> id, timestamp |-> ts, imageUrl |-> img,
   plateNumber |-> Get(d, "plate_number"),
   region |-> Get(d, "region"),
   vehicle |-> [make |-> Get(d, "vehicle_make"), model |-> Get(d, "vehicle_model"),
                color |-> Get(d, "vehicle_color"), type |-> Get(d, "vehicle_type")],
   confidence |-> Get(d, "confidence_score")]

\* Records written by earlier sessions, newest first.
StoredRec(i) == ScanResult(ToString(0 - i), 0 - i, "data:image/jpeg;base64,AAAA", FullData)
Seed(n) == [i \in 1..n |-> StoredRec(i)]
SeedLens == {0, 1, HistoryCap - 1} \cup (HistoryCap..(HistoryCap + MaxOver))

StoredValues ==
  {Absent, EmptyText, Garbage, JsonText(NullVal), JsonText(ObjVal),
   JsonText(Arr(<<[prim |-> 1]>>))} \cup
  {JsonText(Arr(Seed(n))) : n \in SeedLens}

(***************************************************************************)
(* Rendering: the JSX of App throws on a history it cannot walk.  With no  *)
(* error boundary React unmounts the tree.                                 *)
(***************************************************************************)
RenderThrows(h) ==
  \/ h.t = "null"
  \/ IsArr(h) /\ \E i \in 1..Len(h.items) : "vehicle" \notin DOMAIN h.items[i]

(***************************************************************************)
(* Initial state: the useState initial values, before the mount effects.   *)
(***************************************************************************)
Init ==
  /\ image = NoImage
  /\ isProcessing = FALSE
  /\ result = NoResult
  /\ history = Arr(<<>>)
  /\ error = NoError
  /\ storage \in StoredValues
  /\ mounted = FALSE
  /\ crashed = FALSE
  /\ pending = {}
  /\ readers = [f \in Images |-> 0]
  /\ now = 0
  /\ scans = 0
  /\ lastOp = [op |-> "init", arg |-> ""]

Live == mounted /\ ~crashed

(***************************************************************************)
(* Mount: the load-history effect, the save-history effect of the first    *)
(* render, then the re-render caused by setHistory and its save effect.    *)
(***************************************************************************)
LoadHistory(saved) ==
  IF Truthy(saved)
    THEN LET p == JSONparse(saved)
         IN  IF p.ok THEN [set |-> TRUE, val |-> p.val]
             ELSE [set |-> FALSE, val |-> Arr(<<>>)]
    ELSE [set |-> FALSE, val |-> Arr(<<>>)]

Mount ==
  /\ ~mounted
  /\ LET l == LoadHistory(storage)
     IN  /\ mounted' = TRUE
         /\ history' = l.val
         /\ crashed' = (l.set /\ RenderThrows(l.val))
         /\ storage' = IF l.set /\ ~RenderThrows(l.val)
                         THEN JSONstringify(l.val)
                         ELSE JSONstringify(Arr(<<>>))
  /\ lastOp' = [op |-> "mount", arg |-> ""]
  /\ UNCHANGED <<image, isProcessing, result, error, pending, readers, now, scans>>

(***************************************************************************)
(* localStorage and the save-history effect                                *)
(***************************************************************************)
removeItem(s) == Absent
setItem(s, text) == text

\* useEffect(..., [history]): runs after every render in which history changed.
SaveEffect(s, h) == setItem(s, JSONstringify(h))

(***************************************************************************)
(* handleFileUpload and reader.onloadend                                   *)
(***************************************************************************)
ReadersTotal == readers["data:image/jpeg;base64,AAAA"] + readers["data:image/png;base64,BBBB"]

handleFileUpload(f) ==
  /\ Live
  /\ IF f = NoFile
       THEN UNCHANGED readers
       ELSE /\ ReadersTotal < MaxReaders
            /\ readers' = [readers EXCEPT ![f] = @ + 1]
  /\ lastOp' = [op |-> "upload", arg |-> f]
  /\ UNCHANGED <<image, isProcessing, result, history, error, storage,
                 mounted, crashed, pending, now, scans>>

\* reader.result is the data URL, or null when the read failed.
onloadend(f, readOk) ==
  /\ mounted
  /\ readers[f] > 0
  /\ readers' = [readers EXCEPT ![f] = @ - 1]
  /\ IF crashed
       THEN UNCHANGED <<image, result, error>>
       ELSE /\ image' = IF readOk THEN f ELSE NoImage
            /\ result' = NoResult
            /\ error' = NoError
  /\ lastOp' = [op |-> "loadend", arg |-> f]
  /\ UNCHANGED <<isProcessing, history, storage, mounted, crashed, pending, now, scans>>

\* The discard button, rendered only while an image is shown.
Discard ==
  /\ Live
  /\ image # NoImage
  /\ image' = NoImage
  /\ result' = NoResult
  /\ error' = NoError
  /\ lastOp' = [op |-> "discard", arg |-> ""]
  /\ UNCHANGED <<isProcessing, history, storage, mounted, crashed, pending,
                 readers, now, scans>>

(***************************************************************************)
(* processImage, up to the await                                           *)
(***************************************************************************)
ProcessImage_NoBusyGuard ==
  /\ Live
  /\ image # NoImage
  /\ scans < MaxScans
  /\ isProcessing' = TRUE
  /\ error' = NoError
  /\ pending' = pending \cup {[rid |-> scans + 1, image |-> image, resultAtIssue |-> result]}
  /\ scans' = scans + 1
  /\ lastOp' = [op |-> "recognize", arg |-> ToString(scans + 1)]
  /\ UNCHANGED <<image, result, history, storage, mounted, crashed, readers, now>>

\* The recognize button is rendered only with an image and is disabled
\* while isProcessing; resultAtIssue is a history variable of the request.
ProcessImage ==
  /\ Live
  /\ image # NoImage
  /\ ~isProcessing
  /\ scans < MaxScans
  /\ isProcessing' = TRUE
  /\ error' = NoError
  /\ pending' = pending \cup {[rid |-> scans + 1, image |-> image, resultAtIssue |-> result]}
  /\ scans' = scans + 1
  /\ lastOp' = [op |-> "recognize", arg |-> ToString(scans + 1)]
  /\ UNCHANGED <<image, result, history, storage, mounted, crashed, readers, now>>

(***************************************************************************)
(* processImage, after the await                                           *)
(***************************************************************************)
\* The try block reaches setResult: the call resolved, the text parsed, and
\* reading a property of the parsed value did not throw.
Recognized(reply) ==
  LET r == recognizePlate(reply) IN r.ok /\ r.val.t # "null"

Prepend_NoSlice(newResult, prev) == <<newResult>> \o prev

\* [newResult, ...prev].slice(0, 10)
Prepend(newResult, prev) == Take(<<newResult>> \o prev, HistoryCap)

CompleteSuccess(q, reply) ==
  /\ mounted
  /\ q \in pending
  /\ Recognized(reply)
  /\ pending' = pending \ {q}
  \* Date.now() is read twice in one synchronous block; both reads give now.
  /\ LET newResult == ScanResult(ToString(now), now, q.image, recognizePlate(reply).val.fields)
     IN  IF crashed
                THEN UNCHANGED <<result, history, storage, isProcessing, crashed>>
                ELSE IF ~IsArr(history)
                  \* the updater's spread throws while rendering
                  THEN /\ crashed' = TRUE
                       /\ UNCHANGED <<result, history, storage, isProcessing>>
                  ELSE /\ result' = newResult
                       /\ history' = Arr(Prepend(newResult, history.items))
                       /\ storage' = SaveEffect(storage, history')
                       /\ isProcessing' = FALSE
                       /\ UNCHANGED crashed
  /\ lastOp' = [op |-> "success", arg |-> ReplyKind(reply)]
  /\ UNCHANGED <<image, error, mounted, readers, now, scans>>

CompleteFailure_ClearsResult(q, reply) ==
  /\ mounted
  /\ q \in pending
  /\ ~Recognized(reply)
  /\ pending' = pending \ {q}
  /\ IF crashed
       THEN UNCHANGED <<error, isProcessing, result>>
       ELSE /\ error' = ErrMsg
            /\ result' = NoResult
            /\ isProcessing' = FALSE
  /\ lastOp' = [op |-> "failure", arg |-> ReplyKind(reply)]
  /\ UNCHANGED <<image, history, storage, mounted, crashed, readers, now, scans>>

CompleteFailure(q, reply) ==
  /\ mounted
  /\ q \in pending
  /\ ~Recognized(reply)
  /\ pending' = pending \ {q}
  /\ IF crashed
       THEN UNCHANGED <<error, isProcessing>>
       ELSE /\ error' = ErrMsg
            /\ isProcessing' = FALSE
  /\ lastOp' = [op |-> "failure", arg |-> ReplyKind(reply)]
  /\ UNCHANGED <<image, result, history, storage, mounted, crashed, readers, now, scans>>

(***************************************************************************)
(* clearHistory and deleteHistoryItem                                      *)
(***************************************************************************)
\* The button is rendered only when history.length > 0.
clearHistory(confirmed) ==
  /\ Live
  /\ IsArr(history) /\ Len(history.items) > 0
  /\ IF confirmed
       THEN /\ history' = Arr(<<>>)
            /\ storage' = SaveEffect(removeItem(storage), history')
       ELSE UNCHANGED <<history, storage>>
  /\ lastOp' = [op |-> "clear", arg |-> IF confirmed THEN "ok" ELSE "cancel"]
  /\ UNCHANGED <<image, isProcessing, result, error, mounted, crashed, pending,
                 readers, now, scans>>

DeleteIds ==
  {ToString(n) : n \in 0..MaxClock} \cup {ToString(0 - 1), "absent"}

\* prev.filter(item => item.id !== id)
Filter(items, id) ==
  LET keep(x) == x.id # id IN SelectSeq(items, keep)

\* The handler takes any id; the delete buttons of the list pass the id of
\* a record that is shown.
deleteHistoryItem(id) ==
  /\ Live
  /\ IsArr(history)
  /\ history' = Arr(Filter(history.items, id))
  /\ storage' = SaveEffect(storage, history')
  /\ lastOp' = [op |-> "delete", arg |-> id]
  /\ UNCHANGED <<image, isProcessing, result, error, mounted, crashed, pending,
                 readers, now, scans>>

\* A millisecond passes on the wall clock.
Tick ==
  /\ now < MaxClock
  /\ now' = now + 1
  /\ lastOp' = [op |-> "tick", arg |-> ""]
  /\ UNCHANGED <<image, isProcessing, result, history, error, storage, mounted,
                 crashed, pending, readers, scans>>

Next ==
  \/ Mount
  \/ \E f \in Images \cup {NoFile} : handleFileUpload(f)
  \/ \E f \in Images, readOk \in BOOLEAN : onloadend(f, readOk)
  \/ Discard
  \/ ProcessImage
  \/ \E q \in pending, reply \in Replies : CompleteSuccess(q, reply)
  \/ \E q \in pending, reply \in Replies : CompleteFailure(q, reply)
  \/ \E confirmed \in BOOLEAN : clearHistory(confirmed)
  \/ \E id \in DeleteIds : deleteHistoryItem(id)
  \/ Tick

Spec == Init /\ [][Next]_vars

(***************************************************************************)
(* Properties                                                              *)
(***************************************************************************)
HistoryLen == Len(Items(history))

\* C1: once the startup load has run, and after every later History
\* operation, the in-memory History holds at most 10 records, whatever the
\* persisted value was at startup.
C1_HistoryAtMostCap == mounted => HistoryLen <= HistoryCap

\* C2: while a recognition is in flight no further recognition request is
\* accepted, so at most one call is outstanding under every interleaving of
\* user events and completions, and the processing flag is set exactly
\* while a call is outstanding (a request is applied once, when it leaves
\* the outstanding set).
C2_SingleOutstanding ==
  /\ [](Cardinality(pending) <= 1 /\ (Live => (isProcessing <=> pending # {})))
  /\ [][(Live /\ isProcessing) => (pending' \subseteq pending /\ scans' = scans)]_vars

\* C2 witness: a call is outstanding while an image is shown and the user
\* could still click: the new image was selected during the flight.
C2_Witness ==
  /\ Live /\ isProcessing /\ Cardinality(pending) = 1
  /\ image # NoImage /\ scans < MaxScans
  /\ \E q \in pending : q.image # image

\* C3: a reply that parses but lacks one of the seven required fields makes
\* the recognition fail: error is set, result is not set, History unchanged.
C3_PartialReplyRejected ==
  [][(Live /\ lastOp'.op \in {"success", "failure"} /\ lastOp'.arg = "partial")
       => (lastOp'.op = "failure" /\ error' = ErrMsg
           /\ result' = result /\ history' = history)]_vars

\* C4: after a confirmed clear-all, History is empty and the persisted
\* entry is absent.
C4_ClearRemovesEntry ==
  lastOp = [op |-> "clear", arg |-> "ok"] => (history = Arr(<<>>) /\ storage = Absent)

ScanRecordKeys ==
  {"id", "timestamp", "imageUrl", "plateNumber", "region", "vehicle", "confidence"}

IsHistoryText(text) ==
  /\ text.kind = "json"
  /\ IsArr(text.val)
  /\ \A i \in 1..Len(text.val.items) : DOMAIN text.val.items[i] = ScanRecordKeys

\* C5: a startup load of an absent or malformed persisted value (unparsable
\* text, or parsable text that is not a sequence of ScanRecords) yields an
\* empty History, no crash and no user-facing error.
C5_MalformedLoadsEmpty ==
  [][(lastOp'.op = "mount" /\ ~IsHistoryText(storage))
       => (history' = Arr(<<>>) /\ ~crashed' /\ error' = NoError)]_vars

\* C6: a successful recognition with History H (a sequence) and new record
\* r makes History the first 10 of <r> followed by H: r at index 0, every
\* kept record shifted by one, and with 10 records in H exactly the last
\* one dropped.
C6_PrependAndTrim ==
  [][(Live /\ IsArr(history) /\ lastOp'.op = "success")
       => LET H == history.items
              H2 == history'.items
          IN  /\ ~crashed' /\ IsArr(history') /\ result' # NoResult
              /\ Len(H2) = (IF Len(H) < HistoryCap THEN Len(H) + 1 ELSE HistoryCap)
              /\ H2[1] = result'
              /\ \A i \in 2..Len(H2) : H2[i] = H[i - 1]
              /\ (Len(H) = HistoryCap => H2 = <<result'>> \o SubSeq(H, 1, HistoryCap - 1))]_vars

\* C6 witness: a success on a full History: the new record is first, the
\* stored records moved down by one and the tenth stored record is gone.
C6_Witness ==
  /\ Live /\ lastOp.op = "success" /\ IsArr(history)
  /\ HistoryLen = HistoryCap
  /\ history.items[1] = result
  /\ history.items[2] = StoredRec(1)
  /\ history.items[HistoryCap] = StoredRec(HistoryCap - 1)

\* C7: deleting by id removes exactly one record when a record with that id
\* is present (the others kept in order) and changes nothing otherwise.
C7_DeleteExactlyOne ==
  [][(lastOp'.op = "delete")
       => LET H == history.items
              hits == {i \in 1..Len(H) : H[i].id = lastOp'.arg}
          IN  /\ hits # {} => Len(history'.items) = Len(H) - 1
              /\ hits = {} => history' = history]_vars

\* The request whose completion a step applies.
Completed == CHOOSE q \in pending : q \notin pending'

\* C8 as stated: when an in-flight recognition fails, processing is idle,
\* error is present and non-empty, result has the value it had when the
\* request was issued, and History is unchanged.
C8_FailureKeepsIssueResult ==
  [][(Live /\ lastOp'.op = "failure")
       => /\ ~isProcessing'
          /\ error' \notin {NoError, ""}
          /\ result' = Completed.resultAtIssue
          /\ history' = history]_vars

\* C8 as amended: when an in-flight recognition fails, processing is idle,
\* error is present and non-empty, and the completion leaves result and
\* History as they were immediately before it.
C8_FailureStep ==
  [][(Live /\ lastOp'.op = "failure")
       => /\ ~isProcessing'
          /\ error' \notin {NoError, ""}
          /\ result' = result
          /\ history' = history
          /\ storage' = storage]_vars

\* C8 witness: a retry on the same image failed and the earlier result is
\* still shown with the error.
C8_Witness ==
  /\ Live /\ lastOp.op = "failure"
  /\ ~isProcessing /\ error = ErrMsg
  /\ result # NoResult /\ HistoryLen > 0

\* C9: after the startup load and after every History mutation with its
\* save step, what a fresh load would read equals the in-memory History.
C9_StorageInSync == Live => LoadHistory(storage).val = history

\* C10: whenever a result is shown, an image is present and the result is
\* for that image.
C10_ResultForCurrentImage ==
  (Live /\ result # NoResult) => (image # NoImage /\ result.imageUrl = image)

====
